---- MODULE Spec2Model ----
(***************************************************************************)
(* Search orchestration core of src/storage/search_tool.py:                *)
(* CircuitBreaker, retry_with_backoff and SearchClient.search_tool.        *)
(*                                                                         *)
(* The specifications share the variables:                                 *)
(*   SpecBreaker  a CircuitBreaker object driven directly through its      *)
(*                three methods (as the unit tests drive it), for every    *)
(*                constructor argument within the bounds;                  *)
(*   Spec         a default SearchClient on which several search_tool      *)
(*                coroutines run on one event loop and interleave at       *)
(*                their await points; SpecFair adds the event loop's       *)
(*                fairness;                                                *)
(*   SpecSeq      a SearchClient, for every constructor argument, whose    *)
(*                caller awaits each search before making the next;        *)
(*   SpecRecover  a default SearchClient and one caller against an index   *)
(*                that fails until it recovers for good;                   *)
(*   SpecMerge    RRFScorer.merge and SearchClient._rrf_merge on every     *)
(*                input within the bounds;                                 *)
(*   SpecHybrid   the two requests of one hybrid search and their fusion;  *)
(*   SpecFilter   SearchFilterBuilder.build on every input within the      *)
(*                bounds.                                                  *)
(***************************************************************************)
EXTENDS Integers, Sequences, FiniteSets, TLC

\* ---------------------------------------------------------------- bounds
NumCalls     == 2   \* search_tool coroutines on the one SearchClient
MaxTicks     == 2   \* cooldowns that run out on a SearchClient
MaxTime      == 5   \* last reading of the clock in SpecBreaker
MaxThreshold == 3   \* failure_threshold arguments tried in SpecBreaker
MaxTimeout   == 2   \* timeout arguments tried in SpecBreaker
MaxFailures  == 5   \* record_failure() calls in a row in SpecBreaker
NumDocs      == 3   \* distinct doc_ids in the lists given to merge()
MaxLen       == 2   \* length of a ranked list given to merge()
MaxLists     == 3   \* ranked lists given to merge()
MaxFilters   == 2   \* entries of the filters mapping given to build()

\* ------------------------------------------------------ program constants
ClientFailureThreshold == 5    \* CircuitBreaker(failure_threshold=5, ...)
ClientTimeout          == 60   \* CircuitBreaker(..., timeout=60)
max_retries            == 3    \* @retry_with_backoff(max_retries=3, ...)
base_delay             == 1    \* @retry_with_backoff(..., base_delay=1.0, ...)
max_delay              == 10   \* @retry_with_backoff(..., max_delay=10.0)
NoTime                 == -1   \* last_failure_time is None
NoK                    == -9   \* merge(result_lists, k=None)

Calls == 1..NumCalls

SearchTypes == {"keyword", "semantic", "hybrid"}

\* What one index request (self.client.search) can come back with:
\*   "ok"               a response
\*   "ConnectionError"  ESConnectionError or ConnectionTimeout (the two are
\*                      named together in every except clause)
\*   "TransportError"   a TransportError that is neither of those
\*   "RateLimit"        ApiError with status_code == RATE_LIMIT_STATUS_CODE
\*   "ApiError"         ApiError with any other status code
\*   "Unexpected"       any other exception
Outcomes == {"ok", "ConnectionError", "TransportError", "RateLimit", "ApiError",
             "Unexpected"}

Min(a, b) == IF a <= b THEN a ELSE b

VARIABLES
    circuit_breaker,      \* the CircuitBreaker object (a record of its fields)
    now,                  \* time.time()
    embedding_model_mock, \* SearchClient.embedding_model_mock
    default_rrf_k,        \* SearchClient.default_rrf_k
    pc,                   \* per call: "idle", "await", "sleep", "done"
    search_type,          \* per call: the search_type argument
    attempt,              \* per call: the retry wrapper's loop variable
    legs,                 \* per call: index requests awaiting a response
    last_exception,       \* per call: the retry wrapper's last_exception
    result,               \* per call: what the caller got ("ok" or the error)
    issued,               \* per call: index requests issued so far
    delays,               \* per call: the asyncio.sleep arguments so far
    raised,               \* per call: what each attempt so far has raised
    before,               \* per call: the breaker as it was when the call was made
    tripped,              \* per call: the breaker was open when the call last
                          \* went to sleep
    scorer,               \* SpecMerge: the RRFScorer object
    result_lists,         \* SpecMerge: merge()'s result_lists argument
    k_arg,                \* SpecMerge: merge()'s k argument
    merged,               \* SpecMerge: what merge() raised or returned
    hybrid,               \* SpecHybrid: one attempt of a hybrid search, step by step
    built,                \* SpecFilter: a build() call, its arguments and result
    recovered,            \* SpecRecover: the index has recovered for good
    last,                 \* SpecBreaker: the last method called on the breaker
    streak                \* SpecBreaker: record_failure() calls since the last
                          \* record_success() (or since construction)

callVars == <<pc, search_type, attempt, legs, last_exception, result, issued,
              delays, raised, before, tripped>>
clientVars == <<embedding_model_mock, default_rrf_k>>
driverVars == <<last, streak>>
fusionVars == <<scorer, result_lists, k_arg, merged, hybrid>>
filterVars == <<built>>
indexVars == <<recovered>>
vars == <<circuit_breaker, now, clientVars, callVars, driverVars, fusionVars,
          filterVars, indexVars>>

\* ------------------------------------------------------- CircuitBreaker

\* CircuitBreaker.__init__
CircuitBreaker(failure_threshold, timeout) ==
    [failure_threshold |-> failure_threshold,
     timeout           |-> timeout,
     failures          |-> 0,
     last_failure_time |-> NoTime,
     state             |-> "closed"]

\* record_failure with `>` for `>=`: opens one failure late
record_failure_gt(cb, t) ==
    LET f == cb.failures + 1 IN
    [cb EXCEPT !.failures = f,
               !.last_failure_time = t,
               !.state = IF f > cb.failure_threshold THEN "open" ELSE @]

\* record_failure that opens at failure_threshold - 1
record_failure_early(cb, t) ==
    LET f == cb.failures + 1 IN
    [cb EXCEPT !.failures = f,
               !.last_failure_time = t,
               !.state = IF f >= cb.failure_threshold - 1 THEN "open" ELSE @]

\* record_failure that forgets to stamp last_failure_time
record_failure_no_stamp(cb, t) ==
    LET f == cb.failures + 1 IN
    [cb EXCEPT !.failures = f,
               !.state = IF f >= cb.failure_threshold THEN "open" ELSE @]

\* CircuitBreaker.record_failure at time t
record_failure(cb, t) ==
    LET f == cb.failures + 1 IN
    [cb EXCEPT !.failures = f,
               !.last_failure_time = t,
               !.state = IF f >= cb.failure_threshold THEN "open" ELSE @]

\* record_success that resets the counter and forgets the state
record_success_keeps_state(cb) ==
    [cb EXCEPT !.failures = 0]

\* CircuitBreaker.record_success
record_success(cb) ==
    [cb EXCEPT !.failures = 0, !.state = "closed"]

\* can_execute with `>` for `>=` in the cooldown test
can_execute_gt(cb, t) ==
    IF cb.state = "closed" THEN [ret |-> TRUE, cb |-> cb]
    ELSE IF cb.state = "open" THEN
        IF cb.last_failure_time # NoTime /\ t - cb.last_failure_time > cb.timeout
        THEN [ret |-> TRUE, cb |-> [cb EXCEPT !.state = "half-open"]]
        ELSE [ret |-> FALSE, cb |-> cb]
    ELSE [ret |-> cb.state = "half-open", cb |-> cb]

\* can_execute that resets the failure counter when it goes half-open
can_execute_resets(cb, t) ==
    IF cb.state = "closed" THEN [ret |-> TRUE, cb |-> cb]
    ELSE IF cb.state = "open" THEN
        IF cb.last_failure_time # NoTime /\ t - cb.last_failure_time >= cb.timeout
        THEN [ret |-> TRUE, cb |-> [cb EXCEPT !.state = "half-open", !.failures = 0]]
        ELSE [ret |-> FALSE, cb |-> cb]
    ELSE [ret |-> cb.state = "half-open", cb |-> cb]

\* can_execute that admits the call after the cooldown and leaves state open
can_execute_stays_open(cb, t) ==
    IF cb.state = "closed" THEN [ret |-> TRUE, cb |-> cb]
    ELSE IF cb.state = "open" THEN
        IF cb.last_failure_time # NoTime /\ t - cb.last_failure_time >= cb.timeout
        THEN [ret |-> TRUE, cb |-> cb]
        ELSE [ret |-> FALSE, cb |-> cb]
    ELSE [ret |-> cb.state = "half-open", cb |-> cb]

\* can_execute that forgets the failures counted so far when it finds the
\* breaker half-open
can_execute_heals(cb, t) ==
    IF cb.state = "closed" THEN [ret |-> TRUE, cb |-> cb]
    ELSE IF cb.state = "open" THEN
        IF cb.last_failure_time # NoTime /\ t - cb.last_failure_time >= cb.timeout
        THEN [ret |-> TRUE, cb |-> [cb EXCEPT !.state = "half-open"]]
        ELSE [ret |-> FALSE, cb |-> cb]
    ELSE [ret |-> cb.state = "half-open", cb |-> [cb EXCEPT !.failures = 0]]

\* CircuitBreaker.can_execute at time t: the returned value and the object
\* as the call leaves it
can_execute(cb, t) ==
    IF cb.state = "closed" THEN [ret |-> TRUE, cb |-> cb]
    ELSE IF cb.state = "open" THEN
        IF cb.last_failure_time # NoTime /\ t - cb.last_failure_time >= cb.timeout
        THEN [ret |-> TRUE, cb |-> [cb EXCEPT !.state = "half-open"]]
        ELSE [ret |-> FALSE, cb |-> cb]
    ELSE [ret |-> cb.state = "half-open", cb |-> cb]

\* ------------------------------------------------------ retry_with_backoff

\* A delay whose exponent counts the attempt that is about to start
Delay_one_based(a) == Min(base_delay * (2 ^ (a + 1)), max_delay)

\* delay = min(base_delay * (2**attempt), max_delay)
Delay(a) == Min(base_delay * (2 ^ a), max_delay)

\* except clauses that retry every TransportError, as search_tool's own
\* handler groups them
Retried_any_transport(e, a) ==
    \/ e \in {"ConnectionError", "TransportError"} /\ a < max_retries
    \/ e = "RateLimit" /\ a < max_retries

\* except clauses that give a 429 one retry fewer than a connectivity error
Retried_rate_limit_fewer(e, a) ==
    \/ e = "ConnectionError" /\ a < max_retries
    \/ e = "RateLimit" /\ a < max_retries - 1

\* except clauses that retry an ApiError whatever its status code
Retried_any_api(e, a) ==
    \/ e = "ConnectionError" /\ a < max_retries
    \/ e \in {"RateLimit", "ApiError"} /\ a < max_retries

\* except clauses that sleep and retry after the last attempt too
Retried_once_more(e, a) ==
    \/ e = "ConnectionError" /\ a <= max_retries
    \/ e = "RateLimit" /\ a <= max_retries

\* The wrapper's except clauses: is exception e, raised by attempt a, followed
\* by a sleep and another attempt?
Retried(e, a) ==
    \/ e = "ConnectionError" /\ a < max_retries
    \/ e = "RateLimit" /\ a < max_retries

\* The wrapper's assignments to last_exception
LastException(e, a, old) ==
    IF e = "ConnectionError" \/ (e = "RateLimit" /\ a < max_retries)
    THEN e ELSE old

\* ------------------------------------------------------------ search_tool

\* except clauses in which a 429 is recorded as a failure
RecordsFailure_rate_limit(e) == e # "ApiError"

\* except clauses with no record_failure() in the final `except Exception`
RecordsFailure_not_unexpected(e) ==
    e \notin {"RateLimit", "ApiError", "Unexpected"}

\* except clauses in which a non-429 ApiError is recorded as a failure
RecordsFailure_api_error(e) == e # "RateLimit"

\* except clauses in which a connectivity error is not recorded either
RecordsFailure_not_connectivity(e) ==
    e \notin {"RateLimit", "ApiError", "ConnectionError"}

\* search_tool's except clauses: does exception e reach record_failure()?
\* ApiError (429 or not) is logged and re-raised without touching the breaker.
RecordsFailure(e) == e \notin {"RateLimit", "ApiError"}

\* The breaker after search_tool's handler for exception e
AfterException(cb, e, t) ==
    IF RecordsFailure(e) THEN record_failure(cb, t) ELSE cb

\* The requests one attempt sends: one per sub-query
Requests(st) ==
    CASE st = "keyword"  -> {"bm25"}
      [] st = "semantic" -> {"knn"}
      [] st = "hybrid"   -> {"bm25", "knn"}

\* The wrapper receives exception e from attempt number a of call c.
Raise(c, e, a) ==
    /\ last_exception' = [last_exception EXCEPT ![c] = LastException(e, a, @)]
    /\ legs' = [legs EXCEPT ![c] = {}]
    /\ raised' = [raised EXCEPT ![c] = Append(@, e)]
    /\ IF Retried(e, a)
       THEN /\ pc' = [pc EXCEPT ![c] = "sleep"]
            /\ delays' = [delays EXCEPT ![c] = Append(@, Delay(a))]
            /\ result' = result
            /\ tripped' = [tripped EXCEPT ![c] = circuit_breaker'.state = "open"]
       ELSE /\ pc' = [pc EXCEPT ![c] = "done"]
            /\ delays' = delays
            /\ result' = [result EXCEPT ![c] = e]
            /\ tripped' = tripped

\* Attempt with the breaker gate inside the try block, so that the gate's
\* RuntimeError reaches `except Exception` and is recorded as a failure
Attempt_gate_in_try(c, st, a) ==
    LET gate == can_execute(circuit_breaker, now) IN
    IF ~gate.ret THEN
        /\ circuit_breaker' = AfterException(gate.cb, "ServiceUnavailable", now)
        /\ issued' = issued
        /\ Raise(c, "ServiceUnavailable", a)
    ELSE IF st # "keyword" /\ ~embedding_model_mock THEN
        /\ circuit_breaker' = AfterException(gate.cb, "NotImplementedError", now)
        /\ issued' = issued
        /\ Raise(c, "NotImplementedError", a)
    ELSE
        /\ circuit_breaker' = gate.cb
        /\ issued' = [issued EXCEPT ![c] = @ + Cardinality(Requests(st))]
        /\ legs' = [legs EXCEPT ![c] = Requests(st)]
        /\ pc' = [pc EXCEPT ![c] = "await"]
        /\ UNCHANGED <<last_exception, result, delays, raised, tripped>>

\* One run of the body of search_tool, as attempt number a of call c, up to
\* its first await that suspends: the breaker gate, _generate_embedding and
\* the index request(s).
Attempt(c, st, a) ==
    LET gate == can_execute(circuit_breaker, now) IN
    IF ~gate.ret THEN
        \* line 258, outside the try block
        /\ circuit_breaker' = gate.cb
        /\ issued' = issued
        /\ Raise(c, "ServiceUnavailable", a)
    ELSE IF st # "keyword" /\ ~embedding_model_mock THEN
        \* NotImplementedError inside the try block: except Exception
        /\ circuit_breaker' = AfterException(gate.cb, "NotImplementedError", now)
        /\ issued' = issued
        /\ Raise(c, "NotImplementedError", a)
    ELSE
        /\ circuit_breaker' = gate.cb
        /\ issued' = [issued EXCEPT ![c] = @ + Cardinality(Requests(st))]
        /\ legs' = [legs EXCEPT ![c] = Requests(st)]
        /\ pc' = [pc EXCEPT ![c] = "await"]
        /\ UNCHANGED <<last_exception, result, delays, raised, tripped>>

\* The caller awaits client.search_tool(...): the wrapper's first attempt.
\* Calls are numbered in the order in which they are made.
Call(c, st) ==
    /\ pc[c] = "idle"
    /\ \A d \in Calls : d < c => pc[d] # "idle"
    /\ search_type' = [search_type EXCEPT ![c] = st]
    /\ attempt' = attempt
    /\ before' = [before EXCEPT ![c] = circuit_breaker]
    /\ Attempt(c, st, attempt[c])
    /\ UNCHANGED <<now, clientVars, fusionVars, filterVars, indexVars, driverVars>>

\* A retry of the index request alone, as if the wrapper were applied below
\* the breaker gate
Retry_ungated(c) ==
    /\ pc[c] = "sleep"
    /\ attempt' = [attempt EXCEPT ![c] = @ + 1]
    /\ issued' = [issued EXCEPT ![c] = @ + Cardinality(Requests(search_type[c]))]
    /\ legs' = [legs EXCEPT ![c] = Requests(search_type[c])]
    /\ pc' = [pc EXCEPT ![c] = "await"]
    /\ UNCHANGED <<circuit_breaker, search_type, before, last_exception, result,
                   delays, raised, tripped>>
    /\ UNCHANGED <<now, clientVars, fusionVars, filterVars, indexVars, driverVars>>

\* A loop whose counter advances by two for each retry
Retry_skips_attempt(c) ==
    /\ pc[c] = "sleep"
    /\ attempt' = [attempt EXCEPT ![c] = @ + 2]
    /\ search_type' = search_type
    /\ before' = before
    /\ Attempt(c, search_type[c], attempt[c] + 2)
    /\ UNCHANGED <<now, clientVars, fusionVars, filterVars, indexVars, driverVars>>

\* asyncio.sleep(delay) returns: the wrapper's loop runs the next attempt.
Retry(c) ==
    /\ pc[c] = "sleep"
    /\ attempt' = [attempt EXCEPT ![c] = @ + 1]
    /\ search_type' = search_type
    /\ before' = before
    /\ Attempt(c, search_type[c], attempt[c] + 1)
    /\ UNCHANGED <<now, clientVars, fusionVars, filterVars, indexVars, driverVars>>

\* The index answers request leg of call c with outcome o, and search_tool
\* runs on from its await to the end of the attempt.
Response(c, leg, o) ==
    /\ pc[c] = "await"
    /\ leg \in legs[c]
    /\ IF o # "ok" THEN
           \* asyncio.gather re-raises the first exception into the try block
           /\ circuit_breaker' = AfterException(circuit_breaker, o, now)
           /\ Raise(c, o, attempt[c])
       ELSE IF legs[c] # {leg} THEN
           \* hybrid: the other sub-query is still outstanding
           /\ legs' = [legs EXCEPT ![c] = @ \ {leg}]
           /\ UNCHANGED <<circuit_breaker, pc, last_exception, result, delays, raised,
                          tripped>>
       ELSE IF search_type[c] = "hybrid" /\ default_rrf_k <= 0 THEN
           \* _rrf_merge raises ValueError inside the try block
           /\ circuit_breaker' = AfterException(circuit_breaker, "ValueError", now)
           /\ Raise(c, "ValueError", attempt[c])
       ELSE
           /\ circuit_breaker' = record_success(circuit_breaker)
           /\ legs' = [legs EXCEPT ![c] = {}]
           /\ pc' = [pc EXCEPT ![c] = "done"]
           /\ result' = [result EXCEPT ![c] = "ok"]
           /\ UNCHANGED <<last_exception, delays, raised, tripped>>
    /\ UNCHANGED <<now, clientVars, fusionVars, filterVars, indexVars, search_type, attempt, issued, before, driverVars>>

\* ------------------------------------------------------------------ clock

\* time.time() advances by step, up to limit
Tick(step, limit) ==
    /\ now + step <= limit
    /\ now' = now + step

\* On a SearchClient the clock is read by can_execute() of an open breaker
\* and nowhere else (line 58): it moves in steps of the breaker's cooldown,
\* and while a cooldown is running.
ClockStep == ClientTimeout

ClientTick ==
    /\ circuit_breaker.state = "open"
    /\ now - circuit_breaker.last_failure_time < circuit_breaker.timeout
    /\ Tick(ClockStep, MaxTicks * ClockStep)
    /\ UNCHANGED <<circuit_breaker, clientVars, fusionVars, filterVars, indexVars, callVars, driverVars>>

\* ------------------------------------------------------ SearchClient: Spec

DefaultRrfK == 60

\* -------------------------------------------------------------- RRFScorer

Docs == 1..NumDocs

\* The values tried for default_k and k
Ks == {-1, 0, 1, DefaultRrfK}

\* A SearchResult: the hit at 1-based position r of list l. Its content
\* stands for content, metadata and source_index, and tells the objects of
\* one input apart; its score is the score the index gave it.
SearchResult(id, l, r) == [doc_id |-> id, score |-> 0, content |-> <<l, r>>]

\* The doc_ids of one ranked list, and of a list of ranked lists
IdLists == UNION {[1..n -> Docs] : n \in 0..MaxLen}
IdListLists == UNION {[1..m -> IdLists] : m \in 0..MaxLists}

\* The result_lists argument with the given doc_ids
ResultLists(ids) ==
    [l \in 1..Len(ids) |->
        [r \in 1..Len(ids[l]) |-> SearchResult(ids[l][r], l, r)]]

\* Scores are exact fractions over the common denominator
\* (k + 1) * ... * (k + MaxLen + 1), kept as their integer numerators.
RECURSIVE Product(_, _)
Product(k, n) == IF n = 0 THEN 1 ELSE (k + n) * Product(k, n - 1)

Denominator(k) == Product(k, MaxLen + 1)

\* The reciprocal taken of the 0-based index: 1.0 / (k_value + rank)
Reciprocal_zero_based(k, rank) == Denominator(k) \div (k + rank)

\* 1.0 / (k_value + rank + 1), rank being enumerate's 0-based index
Reciprocal(k, rank) == Denominator(k) \div (k + rank + 1)

\* Loops that stop at the first empty list
RECURSIVE Scan_stops_at_empty(_)
Scan_stops_at_empty(lists) ==
    IF lists = <<>> \/ Head(lists) = <<>> THEN <<>>
    ELSE [i \in 1..Len(Head(lists)) |-> [rank |-> i - 1, result |-> Head(lists)[i]]]
         \o Scan_stops_at_empty(Tail(lists))

\* The (rank, result) pairs in the order in which the two nested for loops
\* visit them
RECURSIVE Scan(_)
Scan(lists) ==
    IF lists = <<>> THEN <<>>
    ELSE [i \in 1..Len(Head(lists)) |-> [rank |-> i - 1, result |-> Head(lists)[i]]]
         \o Scan(Tail(lists))

\* A loop body that keys the dicts on the pair of doc_id and payload, so that
\* hits of one doc_id from different sources stay apart
LoopBody_keyed_with_source(d, item, k) ==
    LET id == <<item.result.doc_id, item.result.content>> IN
    [keys |-> IF id \in DOMAIN d.fused_scores THEN d.keys ELSE Append(d.keys, id),
     fused_scores |->
        IF id \in DOMAIN d.fused_scores
        THEN [d.fused_scores EXCEPT ![id] = @ + Reciprocal(k, item.rank)]
        ELSE d.fused_scores @@ (id :> Reciprocal(k, item.rank)),
     doc_map |->
        IF id \in DOMAIN d.doc_map THEN d.doc_map
        ELSE d.doc_map @@ (id :> item.result)]

\* A loop body in which the last occurrence of a doc_id wins the doc_map entry
LoopBody_last_wins(d, item, k) ==
    LET id == item.result.doc_id IN
    [keys |-> IF id \in DOMAIN d.fused_scores THEN d.keys ELSE Append(d.keys, id),
     fused_scores |->
        IF id \in DOMAIN d.fused_scores
        THEN [d.fused_scores EXCEPT ![id] = @ + Reciprocal(k, item.rank)]
        ELSE d.fused_scores @@ (id :> Reciprocal(k, item.rank)),
     doc_map |->
        IF id \in DOMAIN d.doc_map THEN [d.doc_map EXCEPT ![id] = item.result]
        ELSE d.doc_map @@ (id :> item.result)]

\* One pass of the inner loop body over dicts d: keys is the insertion order
\* of fused_scores.keys()
LoopBody(d, item, k) ==
    LET id == item.result.doc_id IN
    [keys |-> IF id \in DOMAIN d.fused_scores THEN d.keys ELSE Append(d.keys, id),
     fused_scores |->
        IF id \in DOMAIN d.fused_scores
        THEN [d.fused_scores EXCEPT ![id] = @ + Reciprocal(k, item.rank)]
        ELSE d.fused_scores @@ (id :> Reciprocal(k, item.rank)),
     doc_map |->
        IF id \in DOMAIN d.doc_map THEN d.doc_map
        ELSE d.doc_map @@ (id :> item.result)]

RECURSIVE Loop(_, _, _)
Loop(d, items, k) ==
    IF items = <<>> THEN d ELSE Loop(LoopBody(d, Head(items), k), Tail(items), k)

\* sorted(keys, key=...) without reverse=True
RECURSIVE Sorted_ascending(_, _)
Sorted_ascending(keys, score) ==
    IF keys = <<>> THEN <<>>
    ELSE LET front == Sorted_ascending(SubSeq(keys, 1, Len(keys) - 1), score)
             x == keys[Len(keys)]
             n == Cardinality({i \in 1..Len(front) : score[front[i]] <= score[x]})
         IN SubSeq(front, 1, n) \o <<x>> \o SubSeq(front, n + 1, Len(front))

\* sorted(keys, key=...)[::-1]: descending, keys with equal score reversed
RECURSIVE Sorted_reversed(_, _)
Sorted_reversed(keys, score) ==
    IF keys = <<>> THEN <<>>
    ELSE LET front == Sorted_reversed(SubSeq(keys, 1, Len(keys) - 1), score)
             x == keys[Len(keys)]
             n == Cardinality({i \in 1..Len(front) : score[front[i]] > score[x]})
         IN SubSeq(front, 1, n) \o <<x>> \o SubSeq(front, n + 1, Len(front))

\* sorted(keys, key=..., reverse=True): a stable sort, so keys with equal
\* score keep their relative order
RECURSIVE Sorted(_, _)
Sorted(keys, score) ==
    IF keys = <<>> THEN <<>>
    ELSE LET front == Sorted(SubSeq(keys, 1, Len(keys) - 1), score)
             x == keys[Len(keys)]
             n == Cardinality({i \in 1..Len(front) : score[front[i]] >= score[x]})
         IN SubSeq(front, 1, n) \o <<x>> \o SubSeq(front, n + 1, Len(front))

\* The body shared by RRFScorer.merge and SearchClient._rrf_merge once k has
\* been validated
Fuse(lists, k) ==
    LET d == Loop([keys |-> <<>>, fused_scores |-> <<>>, doc_map |-> <<>>],
                  Scan(lists), k)
        sorted_doc_ids == Sorted(d.keys, d.fused_scores)
    IN [i \in 1..Len(sorted_doc_ids) |->
           [d.doc_map[sorted_doc_ids[i]] EXCEPT
               !.score = d.fused_scores[sorted_doc_ids[i]]]]

\* RRFScorer(default_k): the object, or the ValueError raised in its place;
\* arg is the argument the constructor was called with
RRFScorer(default_k) ==
    IF default_k <= 0
    THEN [state |-> "ValueError", default_k |-> NoK, arg |-> default_k]
    ELSE [state |-> "ok", default_k |-> default_k, arg |-> default_k]

\* merge with `k or self.default_k` for the test `k is not None`
merge_k_or_default(sc, lists, k) ==
    LET k_value == IF k # NoK /\ k # 0 THEN k ELSE sc.default_k IN
    IF k_value <= 0
    THEN [by |-> "merge", raised |-> "ValueError", value |-> <<>>]
    ELSE [by |-> "merge", raised |-> "None", value |-> Fuse(lists, k_value)]

\* scorer.merge(result_lists, k)
merge(sc, lists, k) ==
    LET k_value == IF k # NoK THEN k ELSE sc.default_k IN
    IF k_value <= 0
    THEN [by |-> "merge", raised |-> "ValueError", value |-> <<>>]
    ELSE [by |-> "merge", raised |-> "None", value |-> Fuse(lists, k_value)]

\* client._rrf_merge(result_lists, k)
rrf_merge(lists, k) ==
    IF k <= 0
    THEN [by |-> "_rrf_merge", raised |-> "ValueError", value |-> <<>>]
    ELSE [by |-> "_rrf_merge", raised |-> "None", value |-> Fuse(lists, k)]

\* No scorer constructed and nothing merged yet
NoFusion ==
    /\ scorer = [state |-> "none", default_k |-> NoK, arg |-> NoK]
    /\ result_lists = <<>>
    /\ k_arg = NoK
    /\ merged = [by |-> "None", raised |-> "None", value |-> <<>>]
    /\ hybrid = [pc |-> "idle", embeddings |-> 0, requests |-> <<>>,
                 pending |-> {}, completed |-> <<>>,
                 outcome |-> [leg \in {"bm25", "knn"} |-> "None"],
                 responses |-> [leg \in {"bm25", "knn"} |-> <<>>],
                 before |-> circuit_breaker,
                 raised |-> "None", value |-> <<>>]

\* ---------------------------------------------------- SearchFilterBuilder

\* An argument that was not passed, or passed as None
None == "None"

\* The values tried for ticker, start_date and end_date
Tickers == {None, "", "AAPL"}
StartDates == {None, "", "2024-01-01"}
EndDates == {None, "", "2024-12-31"}

\* The values of a filters entry: a scalar is [list |-> FALSE, v |-> <<x>>],
\* a list is [list |-> TRUE, v |-> <<x, ...>>]
FilterValues ==
    {[list |-> FALSE, v |-> <<"10-K">>],
     [list |-> TRUE, v |-> <<>>],
     [list |-> TRUE, v |-> <<"Technology", "Finance">>],
     [list |-> TRUE, v |-> <<"Technology", "Technology">>]}

FilterKeys == {"sector", "ticker"}

\* The filters argument: None, or a dict as the sequence of its items in
\* iteration order (its keys are distinct)
FilterMaps ==
    {[given |-> FALSE, items |-> <<>>]} \cup
    {[given |-> TRUE, items |-> m] :
        m \in {q \in UNION {[1..n -> [key : FilterKeys, value : FilterValues]] :
                                n \in 0..MaxFilters} :
                  \A i, j \in 1..Len(q) : q[i].key = q[j].key => i = j}}

\* No value: the value slot of a range clause
NoValue == [list |-> FALSE, v |-> <<>>]

\* {"term": {field: value}} and {"terms": {field: value}}
TermClause(kind, field, value) ==
    [kind |-> kind, field |-> field, value |-> value, bounds |-> {}]

\* {"range": {field: range_clause}}, range_clause as its set of items
RangeClause(field, range_clause) ==
    [kind |-> "range", field |-> field, value |-> NoValue, bounds |-> range_clause]

\* A test `is not None` for the truth value
Truthy_is_not_none(x) == x # None

\* Python's truth value of an optional string
Truthy(x) == x # None /\ x # ""

\* if filters: for key, value in filters.items(): ...
CustomClauses(filters) ==
    IF filters.given /\ filters.items # <<>>
    THEN [i \in 1..Len(filters.items) |->
            LET item == filters.items[i] IN
            TermClause(IF item.value.list THEN "terms" ELSE "term", item.key, item.value)]
    ELSE <<>>

\* SearchFilterBuilder.build(ticker, start_date, end_date, filters)
build(ticker, start_date, end_date, filters) ==
    LET term == IF Truthy(ticker)
                THEN <<TermClause("term", "ticker", [list |-> FALSE, v |-> <<ticker>>])>>
                ELSE <<>>
        range_clause ==
            (IF Truthy(start_date) THEN {<<"gte", start_date>>} ELSE {}) \cup
            (IF Truthy(end_date) THEN {<<"lte", end_date>>} ELSE {})
        range == IF Truthy(start_date) \/ Truthy(end_date)
                 THEN <<RangeClause("date", range_clause)>>
                 ELSE <<>>
    IN term \o range \o CustomClauses(filters)

\* No build() call made yet
NoFilters ==
    built = [called |-> FALSE, ticker |-> None, start_date |-> None, end_date |-> None,
             filters |-> [given |-> FALSE, items |-> <<>>],
             filters_after |-> [given |-> FALSE, items |-> <<>>],
             value |-> <<>>]

\* No call made yet
NoCalls ==
    /\ pc = [c \in Calls |-> "idle"]
    /\ search_type = [c \in Calls |-> "hybrid"]
    /\ attempt = [c \in Calls |-> 0]
    /\ legs = [c \in Calls |-> {}]
    /\ last_exception = [c \in Calls |-> "None"]
    /\ result = [c \in Calls |-> "None"]
    /\ issued = [c \in Calls |-> 0]
    /\ delays = [c \in Calls |-> <<>>]
    /\ raised = [c \in Calls |-> <<>>]
    /\ before = [c \in Calls |-> circuit_breaker]
    /\ tripped = [c \in Calls |-> FALSE]

\* client = SearchClient(): every argument at its default
Init ==
    /\ circuit_breaker = CircuitBreaker(ClientFailureThreshold, ClientTimeout)
    /\ now = 0
    /\ embedding_model_mock = TRUE
    /\ default_rrf_k = DefaultRrfK
    /\ NoCalls
    /\ NoFusion
    /\ NoFilters
    /\ recovered = FALSE
    /\ last = [op |-> "__init__", ret |-> FALSE, at |-> 0, pre |-> circuit_breaker]
    /\ streak = 0

\* Coroutines of search_tool run concurrently on the one event loop: between
\* two of its awaits a call runs alone, and at an await any other may run.
Next ==
    \/ \E c \in Calls, st \in SearchTypes : Call(c, st)
    \/ \E c \in Calls : Retry(c)
    \/ \E c \in Calls, leg \in {"bm25", "knn"}, o \in Outcomes : Response(c, leg, o)
    \/ ClientTick

Spec == Init /\ [][Next]_vars

\* -------------------------------------------------- SearchClient: SpecFair

\* The event loop resumes a coroutine whose asyncio.sleep() has run out, and
\* every index request is eventually answered, with a response or an error
\* (the transport's own timeouts see to that).
Fairness ==
    \A c \in Calls :
        /\ WF_vars(Retry(c))
        /\ WF_vars(\E leg \in {"bm25", "knn"}, o \in Outcomes : Response(c, leg, o))

\* Spec on an event loop that keeps running and an index that keeps answering
SpecFair == Init /\ [][Next]_vars /\ Fairness

\* --------------------------------------------------- SearchClient: SpecSeq

\* client = SearchClient(es_url, embedding_model_mock, default_rrf_k)
InitSeq ==
    /\ circuit_breaker = CircuitBreaker(ClientFailureThreshold, ClientTimeout)
    /\ now = 0
    /\ embedding_model_mock \in BOOLEAN
    /\ default_rrf_k \in {0, DefaultRrfK}
    /\ NoCalls
    /\ NoFusion
    /\ NoFilters
    /\ recovered = FALSE
    /\ last = [op |-> "__init__", ret |-> FALSE, at |-> 0, pre |-> circuit_breaker]
    /\ streak = 0

\* No other call is running
Alone(c) == \A d \in Calls \ {c} : pc[d] \in {"idle", "done"}

\* The caller awaits each search before it makes the next.
NextSeq ==
    \/ \E c \in Calls, st \in SearchTypes : Alone(c) /\ Call(c, st)
    \/ \E c \in Calls : Retry(c)
    \/ \E c \in Calls, leg \in {"bm25", "knn"}, o \in Outcomes : Response(c, leg, o)
    \/ ClientTick

SpecSeq == InitSeq /\ [][NextSeq]_vars

\* ------------------------------------------------ CircuitBreaker: SpecBreaker

\* cb.record_failure()
BreakerRecordFailure ==
    /\ streak < MaxFailures
    /\ circuit_breaker' = record_failure(circuit_breaker, now)
    /\ last' = [op |-> "record_failure", ret |-> FALSE, at |-> now, pre |-> circuit_breaker]
    /\ streak' = streak + 1
    /\ UNCHANGED <<now, clientVars, fusionVars, filterVars, indexVars, callVars>>

\* cb.record_success()
BreakerRecordSuccess ==
    /\ circuit_breaker' = record_success(circuit_breaker)
    /\ last' = [op |-> "record_success", ret |-> FALSE, at |-> now, pre |-> circuit_breaker]
    /\ streak' = 0
    /\ UNCHANGED <<now, clientVars, fusionVars, filterVars, indexVars, callVars>>

\* cb.can_execute()
BreakerCanExecute ==
    LET r == can_execute(circuit_breaker, now) IN
    /\ circuit_breaker' = r.cb
    /\ last' = [op |-> "can_execute", ret |-> r.ret, at |-> now, pre |-> circuit_breaker]
    /\ UNCHANGED <<now, streak, clientVars, fusionVars, filterVars, indexVars, callVars>>

BreakerTick ==
    /\ Tick(1, MaxTime)
    /\ UNCHANGED <<circuit_breaker, clientVars, fusionVars, filterVars, indexVars, callVars, driverVars>>

\* cb = CircuitBreaker(failure_threshold, timeout)
InitBreaker ==
    /\ \E ft \in 1..MaxThreshold, to \in 1..MaxTimeout :
           circuit_breaker = CircuitBreaker(ft, to)
    /\ now = 0
    /\ embedding_model_mock = TRUE
    /\ default_rrf_k = DefaultRrfK
    /\ NoCalls
    /\ NoFusion
    /\ NoFilters
    /\ recovered = FALSE
    /\ last = [op |-> "__init__", ret |-> FALSE, at |-> 0, pre |-> circuit_breaker]
    /\ streak = 0

NextBreaker ==
    \/ BreakerRecordFailure
    \/ BreakerRecordSuccess
    \/ BreakerCanExecute
    \/ BreakerTick

SpecBreaker == InitBreaker /\ [][NextBreaker]_vars

\* ------------------------------------------------------ RRFScorer: SpecMerge

\* scorer = RRFScorer(default_k)
NewScorer(default_k) ==
    /\ scorer.state = "none"
    /\ merged.by = "None"
    /\ scorer' = RRFScorer(default_k)
    /\ UNCHANGED <<circuit_breaker, now, clientVars, callVars, driverVars, filterVars, indexVars,
                   result_lists, k_arg, merged, hybrid>>

\* scorer.merge(result_lists, k), k = NoK standing for the call without k
Merge(ids, k) ==
    /\ scorer.state = "ok"
    /\ merged.by = "None"
    /\ result_lists' = ResultLists(ids)
    /\ k_arg' = k
    /\ merged' = merge(scorer, ResultLists(ids), k)
    /\ UNCHANGED <<circuit_breaker, now, clientVars, callVars, driverVars, filterVars, indexVars, scorer,
                   hybrid>>

\* client._rrf_merge(result_lists, k)
ClientMerge(ids, k) ==
    /\ scorer.state = "none"
    /\ merged.by = "None"
    /\ result_lists' = ResultLists(ids)
    /\ k_arg' = k
    /\ merged' = rrf_merge(ResultLists(ids), k)
    /\ UNCHANGED <<circuit_breaker, now, clientVars, callVars, driverVars, filterVars, indexVars, scorer,
                   hybrid>>

InitMerge ==
    /\ circuit_breaker = CircuitBreaker(ClientFailureThreshold, ClientTimeout)
    /\ now = 0
    /\ embedding_model_mock = TRUE
    /\ default_rrf_k = DefaultRrfK
    /\ NoCalls
    /\ NoFusion
    /\ NoFilters
    /\ recovered = FALSE
    /\ last = [op |-> "__init__", ret |-> FALSE, at |-> 0, pre |-> circuit_breaker]
    /\ streak = 0

\* One merge per behaviour: the inputs are drawn only while none was made
NextMerge ==
    \/ \E default_k \in Ks : NewScorer(default_k)
    \/ /\ merged.by = "None"
       /\ \E ids \in IdListLists, k \in Ks \cup {NoK} : Merge(ids, k)
    \/ /\ merged.by = "None"
       /\ \E ids \in IdListLists, k \in Ks : ClientMerge(ids, k)

SpecMerge == InitMerge /\ [][NextMerge]_vars

\* --------------------------------------- search_tool, hybrid: SpecHybrid
\* One attempt of search_tool(query, search_type="hybrid") on its own, at the
\* grain of its statements: the gate, _generate_embedding, the two requests
\* handed to asyncio.gather, each response, and the fusion.

\* The fields of hybrid:
\*   pc         "idle", "gather" (awaiting asyncio.gather) or "done"
\*   embeddings calls of _generate_embedding so far
\*   requests   the index requests sent, in the order of gather's arguments
\*   pending    the requests not yet answered
\*   completed  the requests answered, in the order of their answers
\*   outcome    per request, what the index answered
\*   responses  per request, the parsed hits of its response
\*   before     the breaker as it was when the attempt started
\*   raised     the exception the attempt raised ("None" if it did not)
\*   value      the list the attempt returned

\* Failures of earlier searches on the client, before the attempt
HybridEarlierFailure ==
    /\ hybrid.pc = "idle"
    /\ circuit_breaker.state = "closed"
    /\ circuit_breaker' = record_failure(circuit_breaker, now)
    /\ UNCHANGED <<now, clientVars, callVars, driverVars, filterVars, indexVars, scorer, result_lists,
                   k_arg, merged, hybrid>>

\* An attempt that sends the vector request only after the lexical response
HybridStart_sequential ==
    /\ hybrid.pc = "idle"
    /\ can_execute(circuit_breaker, now).ret
    /\ embedding_model_mock
    /\ circuit_breaker' = circuit_breaker
    /\ hybrid' = [hybrid EXCEPT !.pc = "gather", !.before = circuit_breaker,
                                !.embeddings = @ + 1,
                                !.requests = <<"bm25">>,
                                !.pending = {"bm25"}]
    /\ UNCHANGED <<now, clientVars, callVars, driverVars, filterVars, indexVars, scorer, result_lists,
                   k_arg, merged>>

\* The attempt up to `await asyncio.gather(...)`
HybridStart ==
    LET gate == can_execute(circuit_breaker, now) IN
    /\ hybrid.pc = "idle"
    /\ IF ~gate.ret THEN
           /\ circuit_breaker' = gate.cb
           /\ hybrid' = [hybrid EXCEPT !.pc = "done", !.before = circuit_breaker,
                                       !.raised = "ServiceUnavailable"]
       ELSE IF ~embedding_model_mock THEN
           /\ circuit_breaker' = AfterException(gate.cb, "NotImplementedError", now)
           /\ hybrid' = [hybrid EXCEPT !.pc = "done", !.before = circuit_breaker,
                                       !.embeddings = @ + 1,
                                       !.raised = "NotImplementedError"]
       ELSE
           /\ circuit_breaker' = gate.cb
           /\ hybrid' = [hybrid EXCEPT !.pc = "gather", !.before = circuit_breaker,
                                       !.embeddings = @ + 1,
                                       !.requests = <<"bm25", "knn">>,
                                       !.pending = {"bm25", "knn"}]
    /\ UNCHANGED <<now, clientVars, callVars, driverVars, filterVars, indexVars, scorer, result_lists,
                   k_arg, merged>>

\* parse_response of the response to request number i with the given doc_ids
Parsed(ids, i) == [r \in 1..Len(ids) |-> SearchResult(ids[r], i, r)]

\* asyncio.gather returns whatever completed as if in completion order
Gathered_as_completed(h) == [i \in 1..Len(h.completed) |-> h.responses[h.completed[i]]]

\* What asyncio.gather returns: the results in the order of its arguments
Gathered(h) == [i \in 1..Len(h.requests) |-> h.responses[h.requests[i]]]

\* A hybrid search that settles for the hits of the sub-query that succeeded
HybridFailure_degraded(h, o) ==
    IF h.pending = {} /\ Len(h.completed) = 2 /\ o \notin {"None", "ValueError"}
    THEN [h EXCEPT !.pc = "done", !.value = rrf_merge(Gathered(h), DefaultRrfK).value]
    ELSE [h EXCEPT !.pc = "done", !.raised = o]

\* The attempt after exception o has been raised inside the try block
HybridFailure(h, o) == [h EXCEPT !.pc = "done", !.raised = o]

\* The index answers request leg with outcome o (and, if o is a response,
\* with hits of the given doc_ids) and the attempt runs on as far as it can.
HybridComplete(leg, o, ids) ==
    LET i == IF leg = "bm25" THEN 1 ELSE 2
        h == [hybrid EXCEPT !.pending = @ \ {leg},
                            !.completed = Append(@, leg),
                            !.outcome[leg] = o,
                            !.responses[leg] = Parsed(ids, i)]
        m == rrf_merge(Gathered(h), default_rrf_k)
    IN
    /\ hybrid.pc = "gather"
    /\ leg \in hybrid.pending
    /\ o = "ok" \/ ids = <<>>
    /\ IF o # "ok" THEN
           /\ circuit_breaker' = AfterException(circuit_breaker, o, now)
           /\ hybrid' = HybridFailure(h, o)
       ELSE IF h.pending # {} THEN
           /\ circuit_breaker' = circuit_breaker
           /\ hybrid' = h
       ELSE IF m.raised # "None" THEN
           /\ circuit_breaker' = AfterException(circuit_breaker, m.raised, now)
           /\ hybrid' = HybridFailure(h, m.raised)
       ELSE
           /\ circuit_breaker' = record_success(circuit_breaker)
           /\ hybrid' = [h EXCEPT !.pc = "done", !.value = m.value]
    /\ UNCHANGED <<now, clientVars, callVars, driverVars, filterVars, indexVars, scorer, result_lists,
                   k_arg, merged>>

InitHybrid ==
    /\ circuit_breaker = CircuitBreaker(ClientFailureThreshold, ClientTimeout)
    /\ now = 0
    /\ embedding_model_mock \in BOOLEAN
    /\ default_rrf_k \in {0, DefaultRrfK}
    /\ NoCalls
    /\ NoFusion
    /\ NoFilters
    /\ recovered = FALSE
    /\ last = [op |-> "__init__", ret |-> FALSE, at |-> 0, pre |-> circuit_breaker]
    /\ streak = 0

NextHybrid ==
    \/ HybridEarlierFailure
    \/ HybridStart
    \/ \E leg \in {"bm25", "knn"}, o \in Outcomes, ids \in IdLists :
           HybridComplete(leg, o, ids)

SpecHybrid == InitHybrid /\ [][NextHybrid]_vars

\* ------------------------------------------------ SearchClient: SpecRecover
\* A default SearchClient used by one caller for one search after another,
\* against an index that fails in any way until, at some moment, it recovers
\* for good.

\* The index recovers: from now on every request is answered with a response
Recover ==
    /\ ~recovered
    /\ recovered' = TRUE
    /\ UNCHANGED <<circuit_breaker, now, clientVars, callVars, driverVars, fusionVars,
                   filterVars>>

\* The caller has its result or exception and is ready for its next search
Forget(c) ==
    /\ pc[c] = "done"
    /\ pc' = [pc EXCEPT ![c] = "idle"]
    /\ search_type' = [search_type EXCEPT ![c] = "hybrid"]
    /\ attempt' = [attempt EXCEPT ![c] = 0]
    /\ legs' = [legs EXCEPT ![c] = {}]
    /\ last_exception' = [last_exception EXCEPT ![c] = "None"]
    /\ result' = [result EXCEPT ![c] = "None"]
    /\ issued' = [issued EXCEPT ![c] = 0]
    /\ delays' = [delays EXCEPT ![c] = <<>>]
    /\ raised' = [raised EXCEPT ![c] = <<>>]
    /\ before' = [before EXCEPT ![c] =
                     CircuitBreaker(ClientFailureThreshold, ClientTimeout)]
    /\ tripped' = [tripped EXCEPT ![c] = FALSE]
    /\ UNCHANGED <<circuit_breaker, now, clientVars, driverVars, fusionVars, filterVars,
                   indexVars>>

\* The clock while a cooldown is running. No failure is recorded once the
\* index has recovered, so that one more cooldown at most runs out then.
RecoverTick ==
    /\ circuit_breaker.state = "open"
    /\ now - circuit_breaker.last_failure_time < circuit_breaker.timeout
    /\ Tick(ClockStep, (IF recovered THEN MaxTicks + 1 ELSE MaxTicks) * ClockStep)
    /\ UNCHANGED <<circuit_breaker, clientVars, fusionVars, filterVars, callVars,
                   driverVars, indexVars>>

\* The caller of SpecRecover
Caller == 1

NextRecover ==
    \/ \E st \in SearchTypes : Call(Caller, st)
    \/ Retry(Caller)
    \/ \E leg \in {"bm25", "knn"}, o \in Outcomes :
          /\ recovered => o = "ok"
          /\ Response(Caller, leg, o)
    \/ Forget(Caller)
    \/ RecoverTick
    \/ Recover

\* The caller keeps searching, the event loop keeps running, the index keeps
\* answering and time keeps passing.
FairnessRecover ==
    /\ WF_vars(\E st \in SearchTypes : Call(Caller, st))
    /\ WF_vars(Retry(Caller))
    /\ WF_vars(\E leg \in {"bm25", "knn"}, o \in Outcomes :
                  (recovered => o = "ok") /\ Response(Caller, leg, o))
    /\ WF_vars(Forget(Caller))
    /\ WF_vars(RecoverTick)

SpecRecover == Init /\ [][NextRecover]_vars /\ FairnessRecover

\* ---------------------------------------------- SearchFilterBuilder: SpecFilter

\* SearchFilterBuilder().build(ticker, start_date, end_date, filters): the
\* builder has no fields, and build() only reads its arguments.
Build(ticker, start_date, end_date, filters) ==
    /\ ~built.called
    /\ built' = [called |-> TRUE, ticker |-> ticker, start_date |-> start_date,
                 end_date |-> end_date, filters |-> filters,
                 filters_after |-> filters,
                 value |-> build(ticker, start_date, end_date, filters)]
    /\ UNCHANGED <<circuit_breaker, now, clientVars, callVars, driverVars, fusionVars,
                   indexVars>>

InitFilter ==
    /\ circuit_breaker = CircuitBreaker(ClientFailureThreshold, ClientTimeout)
    /\ now = 0
    /\ embedding_model_mock = TRUE
    /\ default_rrf_k = DefaultRrfK
    /\ NoCalls
    /\ NoFusion
    /\ NoFilters
    /\ recovered = FALSE
    /\ last = [op |-> "__init__", ret |-> FALSE, at |-> 0, pre |-> circuit_breaker]
    /\ streak = 0

\* One build() per behaviour: the arguments are drawn only while none was made
NextFilter ==
    /\ ~built.called
    /\ \E ticker \in Tickers, start_date \in StartDates, end_date \in EndDates,
          filters \in FilterMaps :
          Build(ticker, start_date, end_date, filters)

SpecFilter == InitFilter /\ [][NextFilter]_vars

TypeOK ==
    /\ circuit_breaker.state \in {"closed", "open", "half-open"}
    /\ circuit_breaker.failures \in Nat
    /\ \A c \in Calls : pc[c] \in {"idle", "await", "sleep", "done"}
    /\ \A c \in Calls : attempt[c] \in 0..max_retries

\* ================================================================ claims

\* Call c starts an attempt: its first, or the one after a sleep.
StartsAttempt(c) == (\E st \in SearchTypes : Call(c, st)) \/ Retry(c)

\* The breaker is open and its cooldown has not elapsed at time t.
CoolingDown(cb, t) ==
    /\ cb.state = "open"
    /\ cb.last_failure_time = NoTime \/ t - cb.last_failure_time < cb.timeout

\* C1 (Spec): an attempt that starts when can_execute() returns false ends the
\* call at once with the service-unavailable error: it issues no index
\* request, it is not followed by a sleep or another attempt, and it leaves
\* the breaker's failures and state as they were. No attempt that finds the
\* breaker open with its cooldown running issues an index request, however
\* the calls on the instance interleave.
C1_GateFailsFast ==
    [][\A c \in Calls :
         /\ (StartsAttempt(c) /\ ~can_execute(circuit_breaker, now).ret) =>
               /\ pc'[c] = "done"
               /\ result'[c] = "ServiceUnavailable"
               /\ issued' = issued
               /\ circuit_breaker'.failures = circuit_breaker.failures
               /\ circuit_breaker'.state = circuit_breaker.state
         /\ issued'[c] # issued[c] => ~CoolingDown(circuit_breaker, now)
      ]_vars

\* C1 witness: a call was refused by the open breaker while another call,
\* admitted earlier, is still waiting for the index.
C1_Witness ==
    \E c \in Calls, d \in Calls :
        /\ pc[c] = "done" /\ result[c] = "ServiceUnavailable"
        /\ pc[d] = "await"
        /\ circuit_breaker.state = "open"

\* C2 (SpecBreaker): after n record_failure() calls with no record_success()
\* among them, the state is closed if n < failure_threshold and open
\* otherwise; and can_execute() of an open breaker whose cooldown has not
\* elapsed returns false.
C2_OpensAtThreshold ==
    /\ last.op = "record_failure" =>
          circuit_breaker.state =
              IF streak < circuit_breaker.failure_threshold THEN "closed" ELSE "open"
    /\ (/\ last.op = "can_execute"
        /\ last.pre.state = "open"
        /\ last.at - last.pre.last_failure_time < last.pre.timeout) => ~last.ret

\* C2 witness: exactly failure_threshold failures in a row, then can_execute()
\* returned false.
C2_Witness ==
    /\ last.op = "can_execute" /\ ~last.ret
    /\ streak = circuit_breaker.failure_threshold
    /\ circuit_breaker.failure_threshold > 1

\* Every attempt of call c has failed with a connectivity error and the retry
\* wrapper has given up.
AllConnectivity(c) ==
    /\ pc[c] = "done"
    /\ Len(raised[c]) = max_retries + 1
    /\ \A i \in 1..Len(raised[c]) : raised[c][i] = "ConnectionError"

\* Call c is the only call made on the client so far.
OnlyCall(c) == \A d \in Calls \ {c} : pc[d] = "idle"

\* C3 as claimed (SpecSeq): a single search call whose every attempt fails with
\* a connectivity error raises the failures counter by exactly 1.
C3_OnePerSequence ==
    \A c \in Calls :
        (AllConnectivity(c) /\ OnlyCall(c)) => circuit_breaker.failures = 1

\* C3 as amended (SpecSeq): the breaker sees one failure per failed attempt:
\* every attempt that fails with a connectivity error raises failures by
\* exactly 1, and a single search call on a fresh client whose
\* max_retries + 1 attempts all fail so leaves failures = max_retries + 1.
C3_OnePerAttempt ==
    /\ [](\A c \in Calls :
            (AllConnectivity(c) /\ OnlyCall(c)) =>
                circuit_breaker.failures = max_retries + 1)
    /\ [][\A c \in Calls, leg \in {"bm25", "knn"} :
            Response(c, leg, "ConnectionError") =>
                circuit_breaker'.failures = circuit_breaker.failures + 1]_vars

\* C3 witness: the only call made has used up its attempts on connectivity
\* errors.
C3_Witness ==
    \E c \in Calls :
        /\ AllConnectivity(c) /\ OnlyCall(c)
        /\ result[c] = "ConnectionError"
        /\ issued[c] >= max_retries + 1

\* C4 (SpecBreaker): record_success() leaves failures = 0 and state = closed,
\* whatever the state and the counter were.
C4_SuccessResets ==
    last.op = "record_success" =>
        circuit_breaker.failures = 0 /\ circuit_breaker.state = "closed"

\* C4 witness: record_success() was called on a half-open breaker.
C4_Witness ==
    /\ last.op = "record_success"
    /\ last.pre.state = "half-open"
    /\ last.pre.failures > 0

\* C5 (SpecBreaker): can_execute() of an open breaker returns true and moves
\* it to half-open exactly when now - last_failure_time >= timeout; otherwise
\* it returns false and the breaker stays open.
C5_CooldownGate ==
    (last.op = "can_execute" /\ last.pre.state = "open") =>
        IF last.at - last.pre.last_failure_time >= last.pre.timeout
        THEN last.ret /\ circuit_breaker.state = "half-open"
        ELSE ~last.ret /\ circuit_breaker.state = "open"

\* C5 witness: can_execute() was called exactly timeout after the last failure.
C5_Witness ==
    /\ last.op = "can_execute" /\ last.pre.state = "open"
    /\ last.at - last.pre.last_failure_time = last.pre.timeout
    /\ last.ret

\* C6 (SpecBreaker): record_failure() on a half-open breaker leaves it open.
C6_HalfOpenFailureReopens ==
    (last.op = "record_failure" /\ last.pre.state = "half-open") =>
        circuit_breaker.state = "open"

\* C6 witness: record_failure() was called on a half-open breaker whose
\* threshold is above 1.
C6_Witness ==
    /\ last.op = "record_failure" /\ last.pre.state = "half-open"
    /\ circuit_breaker.failure_threshold > 1

AllowedTransitions ==
    {<<"closed", "open">>, <<"open", "half-open">>,
     <<"half-open", "closed">>, <<"half-open", "open">>}

\* C7 (Spec): driven by search_tool calls that may interleave at their awaits,
\* the breaker's state changes only along closed -> open, open -> half-open,
\* half-open -> closed and half-open -> open.
C7_Transitions ==
    [][circuit_breaker'.state # circuit_breaker.state =>
          <<circuit_breaker.state, circuit_breaker'.state>> \in AllowedTransitions
      ]_vars

\* C8 as claimed (SpecBreaker): state = closed implies failures = 0.
C8_ClosedImpliesZero ==
    circuit_breaker.state = "closed" => circuit_breaker.failures = 0

\* C8 as amended (SpecBreaker): state = closed implies
\* failures < failure_threshold.
C8_ClosedBelowThreshold ==
    circuit_breaker.state = "closed" =>
        circuit_breaker.failures < circuit_breaker.failure_threshold

\* C8 witness: a closed breaker that has counted a failure.
C8_Witness ==
    /\ circuit_breaker.state = "closed"
    /\ circuit_breaker.failures > 0
    /\ last.op = "record_failure"

\* C9 (SpecBreaker): state = open or half-open implies
\* failures >= failure_threshold and last_failure_time is set.
C9_TrippedImpliesThreshold ==
    circuit_breaker.state \in {"open", "half-open"} =>
        /\ circuit_breaker.failures >= circuit_breaker.failure_threshold
        /\ circuit_breaker.last_failure_time # NoTime

\* C9 witness: a breaker that can_execute() has just moved to half-open.
C9_Witness ==
    /\ circuit_breaker.state = "half-open"
    /\ last.op = "can_execute" /\ last.pre.state = "open"

\* C10 as claimed (SpecBreaker): state = open implies that less than timeout
\* has elapsed since last_failure_time.
C10_OpenImpliesCoolingDown ==
    circuit_breaker.state = "open" =>
        now - circuit_breaker.last_failure_time < circuit_breaker.timeout

\* C10 as amended (SpecBreaker): when can_execute() returns and leaves the
\* breaker open, less than timeout has elapsed since last_failure_time.
C10_OpenAfterCanExecute ==
    (last.op = "can_execute" /\ last.at = now /\ circuit_breaker.state = "open") =>
        now - circuit_breaker.last_failure_time < circuit_breaker.timeout

\* C10 witness: can_execute() has just returned false some time after the
\* last failure.
C10_Witness ==
    /\ last.op = "can_execute" /\ last.at = now /\ ~last.ret
    /\ circuit_breaker.state = "open"
    /\ now > circuit_breaker.last_failure_time

\* C11 (Spec): while the breaker is half-open exactly one probe is admitted.
\* The breaker becomes half-open only in can_execute(), as it admits an
\* attempt, and any record_success() or record_failure() takes it out of
\* half-open; so the claim is that an attempt which starts while the breaker
\* is already half-open is not admitted: it issues no index request.
C11_SingleProbe ==
    [][\A c \in Calls :
         (StartsAttempt(c) /\ circuit_breaker.state = "half-open") =>
             issued'[c] = issued[c]
      ]_vars

\* Every attempt of call c that has ended so far has raised e: the wrapper
\* has received e at least once, nothing else, and no return value.
AllRaised(c, e) ==
    /\ raised[c] # <<>>
    /\ result[c] # "ok"
    /\ \A i \in 1..Len(raised[c]) : raised[c][i] = e

\* The index requests of n admitted attempts of call c
RequestsOf(c, n) == n * Cardinality(Requests(search_type[c]))

\* What a call whose every attempt so far has raised the retryable exception e
\* looks like: at most max_retries + 1 attempts; it goes on as long as fewer
\* have failed (the next attempt is awaited after a sleep), and has ended
\* raising e exactly when max_retries + 1 have.
RetriesUntilExhausted(c, e) ==
    LET n == Len(raised[c]) IN
    /\ n <= max_retries + 1
    /\ pc[c] \in {"sleep", "await", "done"}
    /\ pc[c] = "sleep" => attempt[c] + 1 = n
    /\ pc[c] = "await" => attempt[c] = n
    /\ pc[c] = "done" <=> n = max_retries + 1
    /\ pc[c] = "done" =>
          /\ attempt[c] + 1 = max_retries + 1
          /\ result[c] = e
          /\ issued[c] = RequestsOf(c, max_retries + 1)

\* C12 (Spec): a search call whose every attempt fails with a connectivity
\* error is attempted exactly max_retries + 1 times, and then the wrapper
\* raises the last connectivity error to the caller.
C12_ExhaustsRetries ==
    \A c \in Calls :
        AllRaised(c, "ConnectionError") =>
            /\ RetriesUntilExhausted(c, "ConnectionError")
            /\ pc[c] = "done" => last_exception[c] = "ConnectionError"

\* C12 witness: a call has ended with the connectivity error after
\* max_retries + 1 failed attempts and max_retries sleeps.
C12_Witness ==
    \E c \in Calls :
        /\ AllRaised(c, "ConnectionError")
        /\ pc[c] = "done" /\ result[c] = "ConnectionError"
        /\ Len(raised[c]) = max_retries + 1
        /\ Len(delays[c]) = max_retries

\* The exceptions the wrapper answers with a sleep and another attempt
Retryable == {"ConnectionError", "RateLimit"}

\* C13 (Spec): a search call that returns a result on its N-th attempt, the
\* N-1 attempts before it having failed with retryable errors, was attempted
\* exactly N times, with 1 <= N <= max_retries + 1: the loop counter stands at
\* N - 1, N attempts have sent their index requests, N - 1 sleeps were taken,
\* and nothing of the call is left running after the success.
C13_SucceedsOnNth ==
    \A c \in Calls :
        (pc[c] = "done" /\ result[c] = "ok") =>
            LET N == Len(raised[c]) + 1 IN
            /\ \A i \in 1..(N - 1) : raised[c][i] \in Retryable
            /\ N <= max_retries + 1
            /\ attempt[c] + 1 = N
            /\ issued[c] = RequestsOf(c, N)
            /\ Len(delays[c]) = N - 1
            /\ legs[c] = {}
            /\ ~ENABLED StartsAttempt(c)

\* C13 witness: a call has succeeded on its last attempt, N = max_retries + 1,
\* after failures of both retryable kinds.
C13_Witness ==
    \E c \in Calls :
        /\ pc[c] = "done" /\ result[c] = "ok"
        /\ Len(raised[c]) = max_retries
        /\ \E i, j \in 1..max_retries :
              raised[c][i] = "ConnectionError" /\ raised[c][j] = "RateLimit"

\* C14 (SpecSeq): an attempt that fails with a non-retryable error ends the
\* call there and then: the wrapper raises that same exception, takes no sleep
\* after it and starts no further attempt. A call whose first attempt fails so
\* has been attempted exactly once and has never slept.
C14_NonRetryableOnce ==
    \A c \in Calls :
        \A i \in 1..Len(raised[c]) :
            raised[c][i] \notin Retryable =>
                /\ i = Len(raised[c])
                /\ pc[c] = "done"
                /\ result[c] = raised[c][i]
                /\ attempt[c] + 1 = i
                /\ Len(delays[c]) = i - 1
                /\ issued[c] <= RequestsOf(c, i)
                /\ ~ENABLED StartsAttempt(c)

\* C14 witness: one call has ended on its first attempt with a non-429
\* ApiError and another with a ValueError, neither having slept.
C14_Witness ==
    \E c \in Calls, d \in Calls :
        /\ raised[c] = <<"ApiError">> /\ pc[c] = "done" /\ delays[c] = <<>>
        /\ raised[d] = <<"ValueError">> /\ pc[d] = "done" /\ delays[d] = <<>>

\* A sequence of raised exceptions with each connectivity error replaced by
\* a 429
AsRateLimit(seq) ==
    [i \in 1..Len(seq) |-> IF seq[i] = "ConnectionError" THEN "RateLimit" ELSE seq[i]]

\* The wrapper has raised an exception to the caller of call c.
HasRaised(c) == pc[c] = "done" /\ result[c] # "ok"

\* C15 (Spec): the wrapper treats a 429 exactly as a connectivity error. Two
\* calls whose attempts have raised the same sequence of exceptions up to
\* replacing connectivity errors by 429s have slept the same sequence of
\* delays, have both or neither been given up, and once both have ended have
\* been attempted the same number of times; and a call whose every attempt
\* answers 429 is attempted exactly max_retries + 1 times before the 429
\* error is raised.
C15_RateLimitAsConnectivity ==
    /\ \A c \in Calls, d \in Calls :
          AsRateLimit(raised[c]) = AsRateLimit(raised[d]) =>
              /\ delays[c] = delays[d]
              /\ HasRaised(c) <=> HasRaised(d)
              /\ (pc[c] = "done" /\ pc[d] = "done") => attempt[c] = attempt[d]
    /\ \A c \in Calls :
          AllRaised(c, "RateLimit") => RetriesUntilExhausted(c, "RateLimit")

\* C15 witness: one call has been given up after max_retries + 1 connectivity
\* errors and another after max_retries + 1 429s, having slept the same delays.
C15_Witness ==
    \E c \in Calls, d \in Calls :
        /\ AllRaised(c, "ConnectionError") /\ AllRaised(d, "RateLimit")
        /\ HasRaised(c) /\ HasRaised(d)
        /\ Len(raised[d]) = max_retries + 1
        /\ delays[c] = delays[d]
        /\ Len(delays[d]) = max_retries

\* Call c was the last call made and has ended: in SpecSeq the breaker is as
\* that call left it.
JustEnded(c) ==
    /\ pc[c] = "done"
    /\ \A d \in Calls : d > c => pc[d] = "idle"

\* Call c has failed, it has sent index requests, and every attempt of it
\* that sent any ended with a connectivity error (an attempt refused at the
\* gate sends none).
ConnectivityOnly(c) ==
    /\ HasRaised(c)
    /\ issued[c] > 0
    /\ \A i \in 1..Len(raised[c]) :
          raised[c][i] \in {"ConnectionError", "ServiceUnavailable"}

\* C16 as claimed (SpecSeq): a call made with the breaker closed, whatever
\* its failures count, whose every index request fails with a connectivity
\* error makes max_retries + 1 attempts, surfaces the connectivity error, and
\* is counted by the breaker.
C16_AnyStartingCount ==
    \A c \in Calls :
        (JustEnded(c) /\ ConnectivityOnly(c) /\ before[c].state = "closed") =>
            /\ attempt[c] + 1 = max_retries + 1
            /\ result[c] = "ConnectionError"
            /\ circuit_breaker.failures > before[c].failures

\* C16 as amended (SpecSeq): such a call, awaited on its own, surfaces the
\* connectivity error after max_retries + 1 attempts if the breaker does not
\* open before the last attempt, i.e. if it started with
\* failures + max_retries < failure_threshold; every failed attempt is
\* counted, so failures ends max_retries + 1 higher. With a higher starting
\* count the breaker opens when failures reaches failure_threshold, and
\* unless the cooldown runs out while the call is still retrying, the next
\* attempt is refused at the gate: the call surfaces the service-unavailable
\* error after failure_threshold - failures attempts have reached the index.
C16_BelowThreshold ==
    \A c \in Calls :
        (JustEnded(c) /\ ConnectivityOnly(c) /\ before[c].state = "closed") =>
            LET f0 == before[c].failures
                th == circuit_breaker.failure_threshold IN
            IF f0 + max_retries < th
            THEN /\ attempt[c] + 1 = max_retries + 1
                 /\ result[c] = "ConnectionError"
                 /\ issued[c] = RequestsOf(c, max_retries + 1)
                 /\ circuit_breaker.failures = f0 + max_retries + 1
                 /\ circuit_breaker.state =
                        IF f0 + max_retries + 1 >= th THEN "open" ELSE "closed"
            ELSE /\ circuit_breaker.state = "open"
                 /\ circuit_breaker.failures >= th
                 /\ now - before[c].last_failure_time < circuit_breaker.timeout =>
                        /\ result[c] = "ServiceUnavailable"
                        /\ issued[c] = RequestsOf(c, th - f0)
                        /\ attempt[c] = th - f0
                        /\ circuit_breaker.failures = th

\* C16 witness: a call that started with failures = 1 has surfaced the
\* connectivity error after max_retries + 1 attempts, and its last failure
\* has opened the breaker.
C16_Witness ==
    \E c \in Calls :
        /\ JustEnded(c) /\ ConnectivityOnly(c)
        /\ before[c].state = "closed" /\ before[c].failures = 1
        /\ result[c] = "ConnectionError"
        /\ attempt[c] = max_retries
        /\ circuit_breaker.state = "open"

C18_UnexpectedCountsOnce ==
    \A c \in Calls :
        (JustEnded(c) /\ raised[c] = <<"Unexpected">>) =>
            /\ result[c] = "Unexpected"
            /\ attempt[c] = 0
            /\ delays[c] = <<>>
            /\ issued[c] = RequestsOf(c, 1)
            /\ circuit_breaker.failures = before[c].failures + 1

\* C18 witness: a call made with failures = 4 has ended on its first attempt
\* with an unexpected exception, and that one failure has opened the breaker.
C18_Witness ==
    \E c \in Calls :
        /\ JustEnded(c) /\ raised[c] = <<"Unexpected">>
        /\ before[c].state = "closed"
        /\ before[c].failures + 1 = circuit_breaker.failure_threshold
        /\ circuit_breaker.state = "open"

\* C19 (SpecSeq): a semantic or hybrid search on a client with a real
\* embedding backend fails with the not-configured error, is not retried,
\* and is not breaker-tracked: failures is as before the call and so is the
\* state (of a breaker that was closed or half-open before it).
C19_NotConfiguredUntracked ==
    \A c \in Calls :
        (JustEnded(c) /\ raised[c] = <<"NotImplementedError">>) =>
            /\ result[c] = "NotImplementedError"
            /\ attempt[c] = 0
            /\ issued[c] = 0
            /\ circuit_breaker.failures = before[c].failures
            /\ before[c].state # "open" => circuit_breaker.state = before[c].state

\* C20 (SpecSeq): a hybrid search on a client whose fusion constant is not
\* positive fails with the invalid-argument error, is not retried, and is not
\* breaker-tracked: failures is as before the call and so is the state (of a
\* breaker that was closed or half-open before it).
C20_InvalidArgumentUntracked ==
    \A c \in Calls :
        (JustEnded(c) /\ raised[c] = <<"ValueError">>) =>
            /\ result[c] = "ValueError"
            /\ attempt[c] = 0
            /\ circuit_breaker.failures = before[c].failures
            /\ before[c].state # "open" => circuit_breaker.state = before[c].state

\* C21 (Spec): whenever a search call returns results, in any mode and
\* whether or not earlier attempts of the call failed, breaker success has
\* just been recorded: in the state in which the call returns, failures = 0
\* and state = "closed", however the calls on the instance interleave.
C21_ReturnResetsBreaker ==
    [][\A c \in Calls :
         (pc[c] # "done" /\ pc'[c] = "done" /\ result'[c] = "ok") =>
             /\ circuit_breaker'.failures = 0
             /\ circuit_breaker'.state = "closed"
      ]_vars

\* C21 witness: a hybrid call has returned results after an earlier attempt
\* of it had failed and been counted, and the breaker is closed and reset.
C21_Witness ==
    \E c \in Calls :
        /\ pc[c] = "done" /\ result[c] = "ok"
        /\ search_type[c] = "hybrid"
        /\ raised[c] # <<>>
        /\ before[c].failures > 0
        /\ circuit_breaker.last_failure_time # NoTime
        /\ circuit_breaker.failures = 0
        /\ circuit_breaker.state = "closed"

\* A sub-query of the hybrid attempt has failed.
LegFailed(leg) == hybrid.outcome[leg] \notin {"None", "ok"}

\* C22 (SpecHybrid): hybrid search is all-or-nothing. Once either sub-query
\* of the attempt has failed, the attempt has ended raising that sub-query's
\* exception; it has returned nothing, neither the hits of the sub-query that
\* succeeded nor a fusion; and breaker success has not been recorded: the
\* failures counter is not below what it was when the attempt started.
C22_HybridAllOrNothing ==
    \A leg \in {"bm25", "knn"} :
        LegFailed(leg) =>
            /\ hybrid.pc = "done"
            /\ hybrid.raised = hybrid.outcome[leg]
            /\ hybrid.value = <<>>
            /\ circuit_breaker.failures >= hybrid.before.failures

\* C22 witness: the lexical sub-query came back with hits, then the vector
\* sub-query failed, on a breaker that had failures to reset; nothing was
\* returned.
C22_Witness ==
    /\ hybrid.completed = <<"bm25", "knn">>
    /\ hybrid.outcome["bm25"] = "ok" /\ hybrid.responses["bm25"] # <<>>
    /\ LegFailed("knn")
    /\ hybrid.before.failures > 0
    /\ hybrid.raised # "None" /\ hybrid.value = <<>>

\* C23 (SpecHybrid): a hybrid attempt sends the lexical and the vector
\* request without waiting for either: the embedding is generated exactly
\* once per attempt that gets past the gate; an attempt that sends requests
\* sends exactly two, lexical and vector; both are outstanding while no
\* response has been consumed; and no response, successful or failed, is
\* consumed before both have been sent, so the vector request has been sent
\* even when the lexical one fails.
C23_BothRequestsIssued ==
    /\ hybrid.embeddings <= 1
    /\ (hybrid.pc # "idle" /\ hybrid.raised # "ServiceUnavailable") =>
           hybrid.embeddings = 1
    /\ hybrid.pc = "gather" => hybrid.requests # <<>>
    /\ hybrid.requests # <<>> => hybrid.requests = <<"bm25", "knn">>
    /\ (hybrid.pc = "gather" /\ hybrid.completed = <<>>) =>
           hybrid.pending = {"bm25", "knn"}
    /\ \A leg \in {"bm25", "knn"} :
           hybrid.outcome[leg] # "None" =>
               /\ Len(hybrid.requests) = 2
               /\ \E i \in 1..2 : hybrid.requests[i] = "knn"

\* C23 witness: the lexical request failed first; the vector request had
\* been sent and is still outstanding, and one embedding was generated.
C23_Witness ==
    /\ hybrid.completed = <<"bm25">>
    /\ LegFailed("bm25")
    /\ hybrid.requests = <<"bm25", "knn">>
    /\ "knn" \in hybrid.pending
    /\ hybrid.embeddings = 1

\* The hybrid attempt has returned a list.
HybridReturned == hybrid.pc = "done" /\ hybrid.raised = "None"

\* C24 (SpecHybrid): what a hybrid attempt returns is determined by the two
\* responses alone, whichever sub-query completed first: it is the fusion
\* of the lexical list as first input and the vector list as second, under
\* the client's fusion constant.
C24_FusionOrderFixed ==
    HybridReturned =>
        hybrid.value =
            Fuse(<<hybrid.responses["bm25"], hybrid.responses["knn"]>>, default_rrf_k)

\* C24 witness: the vector sub-query completed first, and fusing the lists
\* in completion order would have given a different result.
C24_Witness ==
    /\ HybridReturned
    /\ hybrid.completed = <<"knn", "bm25">>
    /\ hybrid.value #
          Fuse(<<hybrid.responses["knn"], hybrid.responses["bm25"]>>, default_rrf_k)

\* merge() or _rrf_merge() has been called and has returned a list.
MergeReturned == merged.by # "None" /\ merged.raised = "None"

\* The k the call fused with
KValue == IF merged.by = "merge" /\ k_arg = NoK THEN scorer.default_k ELSE k_arg

\* The sum of the numbers f[x], x in the finite set S
RECURSIVE Sum(_, _)
Sum(f, S) ==
    IF S = {} THEN 0
    ELSE LET x == CHOOSE y \in S : TRUE IN f[x] + Sum(f, S \ {x})

\* The 1-based positions of doc_id id in list l of the input
Positions(id, l) ==
    {r \in 1..Len(result_lists[l]) : result_lists[l][r].doc_id = id}

\* 1/(k + rank) for 1-based rank, over the common denominator
RankTerm(rank) == Denominator(KValue) \div (KValue + rank)

\* The doc_ids that occur in the input
InputIds ==
    {id \in Docs : \E l \in 1..Len(result_lists) : Positions(id, l) # {}}

\* The score of doc_id id with one term per list in which it occurs, for its
\* (first) position in that list
ScorePerList(id) ==
    LET term == [l \in 1..Len(result_lists) |->
                   IF Positions(id, l) = {} THEN 0
                   ELSE RankTerm(CHOOSE r \in Positions(id, l) :
                                    \A q \in Positions(id, l) : r <= q)]
    IN Sum(term, 1..Len(result_lists))

\* The score of doc_id id with one term per occurrence
ScorePerOccurrence(id) ==
    LET term == [l \in 1..Len(result_lists) |->
                   Sum([r \in Positions(id, l) |-> RankTerm(r)], Positions(id, l))]
    IN Sum(term, 1..Len(result_lists))

\* C25 as claimed (SpecMerge): for k > 0 the fused score of each doc_id is
\* the sum over the input lists of 1/(k + rank), rank being the doc's 1-based
\* position in that list, with nothing from lists in which it is absent.
C25_OneTermPerList ==
    MergeReturned =>
        \A i \in 1..Len(merged.value) :
            merged.value[i].score = ScorePerList(merged.value[i].doc_id)

\* C25 as amended (SpecMerge): for k > 0 the fused score of each doc_id is
\* the sum of 1/(k + rank) over every occurrence of the doc_id in every input
\* list, rank being the 1-based position of that occurrence; a list in which
\* the doc_id occurs twice contributes twice. For lists in which no doc_id is
\* repeated this is one term per list that contains it.
C25_OneTermPerOccurrence ==
    MergeReturned =>
        \A i \in 1..Len(merged.value) :
            merged.value[i].score = ScorePerOccurrence(merged.value[i].doc_id)

\* C25 witness: a doc_id at rank 1 of two lists, one of which holds it a
\* second time, has been given its three terms.
C25_Witness ==
    /\ MergeReturned
    /\ Len(result_lists) = 2
    /\ \E id \in Docs :
          /\ Positions(id, 1) = {1, 2}
          /\ Positions(id, 2) = {1}
          /\ merged.value[1].doc_id = id
          /\ merged.value[1].score = 2 * RankTerm(1) + RankTerm(2)

\* The doc_ids of the returned list, in order
MergedIds == [i \in 1..Len(merged.value) |-> merged.value[i].doc_id]

\* C26 (SpecMerge): the list merge returns holds every doc_id of the input
\* exactly once and no other, is sorted by non-increasing fused score, and
\* the score of each returned result is its fused score, not the score it
\* came with.
C26_AllIdsOnceSorted ==
    MergeReturned =>
        /\ {MergedIds[i] : i \in 1..Len(MergedIds)} = InputIds
        /\ Len(MergedIds) = Cardinality(InputIds)
        /\ \A i \in 1..Len(merged.value), j \in 1..Len(merged.value) :
               i < j => merged.value[i].score >= merged.value[j].score
        /\ \A i \in 1..Len(merged.value) :
               /\ merged.value[i].score = ScorePerOccurrence(MergedIds[i])
               /\ \A l \in 1..Len(result_lists) :
                      \A r \in 1..Len(result_lists[l]) :
                          merged.value[i].score # result_lists[l][r].score

\* C26 witness: every doc_id was in the input, one of them in both lists,
\* and the doc_id that was seen first is not the first of the output.
C26_Witness ==
    /\ MergeReturned
    /\ Len(result_lists) = 2
    /\ InputIds = Docs
    /\ Len(merged.value) = NumDocs
    /\ \E id \in Docs : Positions(id, 1) # {} /\ Positions(id, 2) # {}
    /\ MergedIds[1] # result_lists[1][1].doc_id

\* The first occurrence of doc_id id in the input, as <<list, position>>,
\* scanning the lists in input order and each list in rank order
FirstSeen(id) ==
    LET l == CHOOSE m \in 1..Len(result_lists) :
                 /\ Positions(id, m) # {}
                 /\ \A n \in 1..(m - 1) : Positions(id, n) = {}
        r == CHOOSE q \in Positions(id, l) : \A p \in Positions(id, l) : q <= p
    IN <<l, r>>

\* C27 (SpecMerge): the content, metadata and source_index of each returned
\* result are those of the first occurrence of its doc_id in the input;
\* later occurrences have changed nothing but the score.
C27_FirstOccurrencePayload ==
    MergeReturned =>
        \A i \in 1..Len(merged.value) :
            LET at == FirstSeen(MergedIds[i])
                first == result_lists[at[1]][at[2]]
            IN merged.value[i] = [first EXCEPT !.score = merged.value[i].score]

\* C27 witness: a doc_id is second in the first list and first in the second
\* list; the result returned for it is the object of the first list, with a
\* score to which both occurrences contributed.
C27_Witness ==
    /\ MergeReturned
    /\ Len(result_lists) = 2
    /\ \E i \in 1..Len(merged.value) :
          /\ FirstSeen(MergedIds[i]) = <<1, 2>>
          /\ 1 \in Positions(MergedIds[i], 2)
          /\ merged.value[i].content = <<1, 2>>
          /\ merged.value[i].score >= RankTerm(1) + RankTerm(2)

\* <<l, r>> comes before <<m, q>> in the scan of the input
ScannedBefore(a, b) == a[1] < b[1] \/ (a[1] = b[1] /\ a[2] < b[2])

\* C28 (SpecMerge): ties are broken by first appearance: of two returned
\* doc_ids with equal fused score, the one that was seen first in the input
\* (list order, then rank order) comes first in the output. The output order
\* is thereby a function of the input alone.
C28_TiesFirstSeen ==
    MergeReturned =>
        \A i \in 1..Len(merged.value), j \in 1..Len(merged.value) :
            (i < j /\ merged.value[i].score = merged.value[j].score) =>
                ScannedBefore(FirstSeen(MergedIds[i]), FirstSeen(MergedIds[j]))

\* C28 witness: the two doc_ids at the head of the output have equal fused
\* scores, and a third doc_id, seen before one of them, follows with a lower
\* score.
C28_Witness ==
    /\ MergeReturned
    /\ Len(merged.value) = 3
    /\ merged.value[1].score = merged.value[2].score
    /\ merged.value[2].score > merged.value[3].score
    /\ ScannedBefore(FirstSeen(MergedIds[3]), FirstSeen(MergedIds[2]))

\* C29 (SpecMerge): a non-positive k is refused with ValueError and nothing
\* is produced, at construction (default_k <= 0: no scorer to merge with) and
\* at the call (k <= 0 on a scorer that was constructed); a positive k is
\* never refused; and a merge without k scores with the constructor's
\* default_k.
C29_NonPositiveKRefused ==
    /\ scorer.state # "none" =>
          /\ scorer.arg <= 0 <=> scorer.state = "ValueError"
          /\ scorer.state = "ok" => scorer.default_k = scorer.arg
    /\ merged.by = "merge" =>
          /\ scorer.state = "ok"
          /\ (k_arg # NoK /\ k_arg <= 0) <=> merged.raised = "ValueError"
          /\ merged.raised \in {"None", "ValueError"}
          /\ merged.raised = "ValueError" => merged.value = <<>>
          /\ k_arg = NoK =>
                /\ KValue = scorer.arg
                /\ \A i \in 1..Len(merged.value) :
                      merged.value[i].score = ScorePerOccurrence(MergedIds[i])
          /\ merged.raised = "None" => Len(merged.value) = Cardinality(InputIds)

\* C29 witness: a scorer constructed with a positive default_k was asked to
\* merge a non-empty input with k = 0 and raised ValueError.
C29_Witness ==
    /\ scorer.state = "ok"
    /\ scorer.default_k > 0
    /\ merged.by = "merge"
    /\ k_arg = 0
    /\ InputIds # {}
    /\ merged.raised = "ValueError"
    /\ merged.value = <<>>

\* The input without its empty lists
NonEmptyLists == SelectSeq(result_lists, LAMBDA l : l # <<>>)

\* C30 (SpecMerge): empty inputs are valid and contribute nothing: no list,
\* or only empty lists, gives the empty result without an error, and the
\* output for an input is the output for that input without its empty
\* lists, wherever they stand (same order, scores and payloads).
C30_EmptyListsNeutral ==
    (merged.by # "None" /\ KValue > 0) =>
        /\ merged.raised = "None"
        /\ NonEmptyLists = <<>> => merged.value = <<>>
        /\ LET without == Fuse(NonEmptyLists, KValue)
           IN /\ Len(merged.value) = Len(without)
              /\ \A i \in 1..Len(without) :
                    /\ merged.value[i].doc_id = without[i].doc_id
                    /\ merged.value[i].score = without[i].score
                    /\ merged.value[i].content[2] = without[i].content[2]

\* C30 witness: an empty list stands between two non-empty lists that share
\* a doc_id, and the merge returned a non-empty result.
C30_Witness ==
    /\ MergeReturned
    /\ Len(result_lists) = 3
    /\ result_lists[1] # <<>>
    /\ result_lists[2] = <<>>
    /\ result_lists[3] # <<>>
    /\ \E id \in Docs : Positions(id, 1) # {} /\ Positions(id, 3) # {}
    /\ merged.value # <<>>

\* The attempts of call c so far (1-based) that were followed by a sleep
SleptAfter(c) ==
    {i \in 1..Len(raised[c]) : raised[c][i] \in Retryable /\ i - 1 < max_retries}

\* C31 (Spec): the wrapper sleeps only between attempts. The i-th sleep of a
\* call follows its failed attempt with 0-based index i - 1 and lasts
\* min(base_delay * 2^(i-1), max_delay); the delays of a call never decrease
\* and never exceed max_delay; there is one sleep for each attempt that
\* raised a retryable error before the last attempt, and none after the last
\* attempt, after a non-retryable error or after a success. The delay formula
\* stays monotone and capped beyond the attempts a call can make.
C31_SleepsBetweenAttempts ==
    /\ \A c \in Calls :
          /\ \A i \in 1..Len(delays[c]) :
                /\ delays[c][i] = Min(base_delay * (2 ^ (i - 1)), max_delay)
                /\ delays[c][i] <= max_delay
                /\ i > 1 => delays[c][i - 1] <= delays[c][i]
                /\ i \in SleptAfter(c)
          /\ Len(delays[c]) = Cardinality(SleptAfter(c))
          /\ Len(delays[c]) <= max_retries
          /\ pc[c] = "sleep" => Len(delays[c]) = attempt[c] + 1
          /\ pc[c] \in {"await", "done"} => Len(delays[c]) = attempt[c]
          /\ pc[c] = "idle" => delays[c] = <<>>
    /\ \A a \in 0..(2 * max_retries) :
          /\ Delay(a) = Min(base_delay * (2 ^ a), max_delay)
          /\ Delay(a) <= max_delay
          /\ Delay(a) <= Delay(a + 1)

\* C31 witness: a call slept 1, 2 and 4 seconds after its first three
\* attempts and ended on its fourth, which failed too; another call ended on
\* a non-retryable error after a single sleep.
C31_Witness ==
    \E c, d \in Calls :
        /\ pc[c] = "done"
        /\ Len(raised[c]) = max_retries + 1
        /\ delays[c] = <<1, 2, 4>>
        /\ pc[d] = "done"
        /\ Len(raised[d]) = 2
        /\ raised[d][2] \notin Retryable
        /\ delays[d] = <<1>>

\* C32 (SpecFair): every search call terminates. If every index request is
\* eventually answered, a call that was made eventually returns or raises;
\* and by then it has made at most max_retries + 1 attempts and slept at
\* most max_retries times.
C32_CallTerminates ==
    /\ \A c \in Calls : (pc[c] # "idle") ~> (pc[c] = "done")
    /\ [](\A c \in Calls :
            /\ attempt[c] <= max_retries
            /\ Len(raised[c]) <= max_retries + 1
            /\ Len(delays[c]) <= max_retries
            /\ issued[c] <= 2 * (max_retries + 1))

\* C32 witness: a call has ended after max_retries + 1 attempts and
\* max_retries sleeps, the most it can make.
C32_Witness ==
    \E c \in Calls :
        /\ pc[c] = "done"
        /\ attempt[c] = max_retries
        /\ Len(raised[c]) = max_retries + 1
        /\ Len(delays[c]) = max_retries

\* What build() has returned is, for the reading Given(_) of "is given": a
\* term clause on ticker if ticker is given, then one range clause on date if
\* start_date or end_date is given (gte iff start_date is given, lte iff
\* end_date is), then one clause per entry of filters in mapping order
\* (terms for a list, term otherwise, the value as it was passed); nothing
\* else; and the filters argument is as it was.
BuiltAsDescribed(Given(_)) ==
    LET v == built.value
        items == built.filters.items
        t == IF Given(built.ticker) THEN 1 ELSE 0
        r == IF Given(built.start_date) \/ Given(built.end_date) THEN 1 ELSE 0
    IN /\ Len(v) = t + r + Len(items)
       /\ t = 1 =>
             v[1] = [kind |-> "term", field |-> "ticker",
                     value |-> [list |-> FALSE, v |-> <<built.ticker>>], bounds |-> {}]
       /\ r = 1 =>
             /\ v[t + 1].kind = "range"
             /\ v[t + 1].field = "date"
             /\ v[t + 1].bounds \subseteq
                    {<<"gte", built.start_date>>, <<"lte", built.end_date>>}
             /\ <<"gte", built.start_date>> \in v[t + 1].bounds
                    <=> Given(built.start_date)
             /\ <<"lte", built.end_date>> \in v[t + 1].bounds
                    <=> Given(built.end_date)
       /\ \A i \in 1..Len(items) :
             v[t + r + i] = [kind |-> IF items[i].value.list THEN "terms" ELSE "term",
                             field |-> items[i].key,
                             value |-> items[i].value, bounds |-> {}]
       /\ Cardinality({i \in 1..Len(v) : v[i].kind = "range"}) = r
       /\ (t = 0 /\ r = 0 /\ items = <<>>) => v = <<>>
       /\ built.filters_after = built.filters

\* C33 as stated (SpecFilter): build() returns the clauses described, an
\* argument being given when it is not None.
C33_GivenIsNotNone ==
    built.called => BuiltAsDescribed(LAMBDA x : x # None)

\* C33 (SpecFilter): build() returns the clauses described, an argument
\* being given when it is neither None nor the empty string (an empty
\* filters mapping has no entries and adds nothing).
C33_GivenIsNonEmpty ==
    built.called => BuiltAsDescribed(LAMBDA x : x # None /\ x # "")

\* C33 witness: build() was called with a ticker, an empty start_date, an
\* end_date and two filters, one of them a list with a repeated value, and
\* returned four clauses, the range clause with lte alone.
C33_Witness ==
    /\ built.called
    /\ built.ticker = "AAPL"
    /\ built.start_date = ""
    /\ built.end_date = "2024-12-31"
    /\ Len(built.filters.items) = 2
    /\ built.filters.items[1].key = "ticker"
    /\ built.filters.items[2].value.v = <<"Technology", "Technology">>
    /\ Len(built.value) = 4
    /\ built.value[2].bounds = {<<"lte", "2024-12-31">>}
    /\ built.value[4].value.v = <<"Technology", "Technology">>

\* C34 (SpecBreaker): the failure counter only grows, except that
\* record_success() sets it to 0: record_failure() adds one to it, and
\* can_execute() leaves failures and last_failure_time (and the two
\* constructor arguments) as they were, changes state at most from open to
\* half-open, and on a closed or half-open breaker returns true and changes
\* nothing.
C34_CounterMonotonic ==
    /\ circuit_breaker.failures < last.pre.failures =>
          /\ last.op = "record_success"
          /\ circuit_breaker.failures = 0
    /\ last.op = "record_success" => circuit_breaker.failures = 0
    /\ last.op = "record_failure" =>
          circuit_breaker.failures = last.pre.failures + 1
    /\ last.op = "can_execute" =>
          /\ circuit_breaker.failures = last.pre.failures
          /\ circuit_breaker.last_failure_time = last.pre.last_failure_time
          /\ circuit_breaker.failure_threshold = last.pre.failure_threshold
          /\ circuit_breaker.timeout = last.pre.timeout
          /\ \/ circuit_breaker.state = last.pre.state
             \/ last.pre.state = "open" /\ circuit_breaker.state = "half-open"
          /\ last.pre.state \in {"closed", "half-open"} =>
                last.ret /\ circuit_breaker = last.pre

\* C34 witness: can_execute() was called on a half-open breaker that holds
\* counted failures; it returned true and the breaker is as it was.
C34_Witness ==
    /\ last.op = "can_execute"
    /\ last.pre.state = "half-open"
    /\ last.pre.failures >= last.pre.failure_threshold
    /\ last.ret
    /\ circuit_breaker = last.pre

\* C35 as stated (Spec): once the breaker is open at the moment a failed
\* attempt sends its call to sleep, the next attempt of that call is refused
\* by the gate: the call is never again waiting for the index, and ends with
\* the service-unavailable error.
C35_OpenedMeansRefused ==
    \A c \in Calls :
        (tripped[c] /\ pc[c] \in {"await", "done"}) =>
            /\ pc[c] = "done"
            /\ result[c] = "ServiceUnavailable"

\* C35 (Spec): the gate is evaluated by every retry. A retry that finds the
\* breaker open with its cooldown running raises the service-unavailable
\* error: the call ends there, with that error and not with the retryable
\* error that sent it to sleep; it issues no index request, does not sleep
\* again and leaves the breaker as it was. A retry that the gate admits
\* issues its index request(s). A call that ends with service-unavailable
\* after retries has raised retryable errors only before.
C35_GateOnEveryRetry ==
    /\ [][\A c \in Calls :
            /\ (Retry(c) /\ CoolingDown(circuit_breaker, now)) =>
                  /\ raised[c][Len(raised[c])] \in Retryable
                  /\ raised'[c] = Append(raised[c], "ServiceUnavailable")
                  /\ pc'[c] = "done"
                  /\ result'[c] = "ServiceUnavailable"
                  /\ issued'[c] = issued[c]
                  /\ delays'[c] = delays[c]
                  /\ circuit_breaker' = circuit_breaker
            /\ (Retry(c) /\ ~CoolingDown(circuit_breaker, now)) =>
                  /\ pc'[c] = "await"
                  /\ issued'[c] = issued[c] + Cardinality(Requests(search_type[c]))
         ]_vars
    /\ [](\A c \in Calls :
            (pc[c] = "done" /\ result[c] = "ServiceUnavailable") =>
                /\ last_exception[c] # "ServiceUnavailable"
                /\ \A i \in 1..(Len(raised[c]) - 1) : raised[c][i] \in Retryable
                /\ Len(delays[c]) = Len(raised[c]) - 1
                /\ issued[c] = RequestsOf(c, Len(raised[c]) - 1))

\* C35 witness: a call made on a closed breaker failed with connection
\* errors, the breaker was open when it went to sleep, and its retry ended it
\* with the service-unavailable error.
C35_Witness ==
    \E c \in Calls :
        /\ before[c].state = "closed"
        /\ pc[c] = "done"
        /\ result[c] = "ServiceUnavailable"
        /\ Len(raised[c]) >= 2
        /\ raised[c][Len(raised[c]) - 1] = "ConnectionError"
        /\ last_exception[c] = "ConnectionError"
        /\ tripped[c]
        /\ circuit_breaker.state = "open"

\* C37 (SpecSeq): a TransportError that is neither a connection error nor a
\* connection timeout counts against the breaker but is not retried. The
\* attempt it ends is the last of its call, with no sleep after it, and the
\* caller gets the TransportError; a call so answered on its first attempt
\* has sent the requests of one attempt and has left failures exactly one
\* higher than it was, with last_failure_time set.
C37_TransportCountedNotRetried ==
    \A c \in Calls :
        /\ \A i \in 1..Len(raised[c]) :
              raised[c][i] = "TransportError" =>
                  /\ i = Len(raised[c])
                  /\ pc[c] = "done"
                  /\ result[c] = "TransportError"
                  /\ Len(delays[c]) = i - 1
        /\ (JustEnded(c) /\ raised[c] = <<"TransportError">>) =>
              /\ attempt[c] = 0
              /\ issued[c] = RequestsOf(c, 1)
              /\ circuit_breaker.failures = before[c].failures + 1
              /\ circuit_breaker.last_failure_time \in 0..now
              /\ circuit_breaker.last_failure_time >= before[c].last_failure_time

\* C37 witness: a call made with failures = 4 was answered with such a
\* TransportError on its first attempt; it has ended, and that one failure
\* has opened the breaker.
C37_Witness ==
    \E c \in Calls :
        /\ JustEnded(c) /\ raised[c] = <<"TransportError">>
        /\ attempt[c] = 0
        /\ before[c].state = "closed"
        /\ before[c].failures + 1 = circuit_breaker.failure_threshold
        /\ circuit_breaker.state = "open"

\* C36 as stated (SpecRecover): a call whose every attempt was rate-limited
\* has left failures, last_failure_time and state as they were before it.
C36_RateLimitLeavesBreaker ==
    \A c \in Calls :
        (pc[c] = "done" /\ AllRaised(c, "RateLimit")) =>
            /\ circuit_breaker.failures = before[c].failures
            /\ circuit_breaker.last_failure_time = before[c].last_failure_time
            /\ circuit_breaker.state = before[c].state

\* C36 (SpecRecover): a 429 never counts against the breaker. The handling
\* of a 429 response leaves the whole breaker as it is; and while every
\* attempt of a call has been rate-limited, failures and last_failure_time
\* are as they were before the call and state is as it was, except that a
\* call made on an open breaker whose cooldown had run out has been admitted
\* through the gate's transition to half-open, where the 429 leaves it. Such
\* a call never leaves the breaker open.
C36_RateLimitNeverCounts ==
    /\ [](\A c \in Calls :
            (pc[c] # "idle" /\ AllRaised(c, "RateLimit")) =>
                /\ circuit_breaker =
                      IF before[c].state = "open"
                      THEN [before[c] EXCEPT !.state = "half-open"]
                      ELSE before[c]
                /\ circuit_breaker.state # "open"
                /\ pc[c] = "done" =>
                      /\ Len(raised[c]) = max_retries + 1
                      /\ result[c] = "RateLimit")
    /\ [][\A c \in Calls :
            (pc[c] = "await" /\ raised'[c] = Append(raised[c], "RateLimit")) =>
                circuit_breaker' = circuit_breaker
         ]_vars

\* C36 witness: a call made on an open breaker after its cooldown was
\* rate-limited on all its attempts; the breaker is half-open, its failures
\* and last_failure_time as before the call.
C36_Witness ==
    \E c \in Calls :
        /\ pc[c] = "done"
        /\ AllRaised(c, "RateLimit")
        /\ Len(raised[c]) = max_retries + 1
        /\ before[c].state = "open"
        /\ circuit_breaker.state = "half-open"
        /\ circuit_breaker.failures = before[c].failures
        /\ circuit_breaker.failures >= circuit_breaker.failure_threshold

\* The breaker is closed with no failure counted
Healed == circuit_breaker.state = "closed" /\ circuit_breaker.failures = 0

EntriesOf(id) == {i \in 1..Len(merged.value) : MergedIds[i] = id}

\* C39 (SpecMerge): fusion keys on doc_id alone. Any two hits of the input
\* with the same doc_id and different payloads (source_index), in one list or
\* in two, end in a single returned entry; its score holds the 1/(k + rank)
\* of both hits, being the sum over all occurrences of the doc_id, and its
\* payload is that of the first occurrence. A doc_id repeated inside one
\* list is thus counted once per occurrence.
C39_KeyedOnDocIdAlone ==
    MergeReturned =>
        \A l \in 1..Len(result_lists), m \in 1..Len(result_lists) :
            \A r \in 1..Len(result_lists[l]) :
                \A q \in 1..Len(result_lists[m]) :
                    ( /\ <<l, r>> # <<m, q>>
                      /\ result_lists[l][r].doc_id = result_lists[m][q].doc_id
                      /\ result_lists[l][r].content # result_lists[m][q].content )
                    => LET id == result_lists[l][r].doc_id
                           at == FirstSeen(id)
                       IN /\ Cardinality(EntriesOf(id)) = 1
                          /\ \A i \in EntriesOf(id) :
                                 /\ merged.value[i].score = ScorePerOccurrence(id)
                                 /\ merged.value[i].score >= RankTerm(r) + RankTerm(q)
                                 /\ merged.value[i].content =
                                        result_lists[at[1]][at[2]].content

\* C39 witness: one doc_id is at ranks 1 and 2 of the first list and at rank
\* 2 of the second; the output holds it once, with the payload of rank 1 of
\* the first list and the three terms as its score.
C39_Witness ==
    /\ MergeReturned
    /\ Len(result_lists) = 2
    /\ \E id \in Docs :
          /\ Positions(id, 1) = {1, 2}
          /\ Positions(id, 2) = {2}
          /\ Cardinality(EntriesOf(id)) = 1
          /\ \A i \in EntriesOf(id) :
                 /\ merged.value[i].content = <<1, 1>>
                 /\ merged.value[i].score = RankTerm(1) + 2 * RankTerm(2)

====
